---- MODULE Spec2Model ----
(***************************************************************************)
(* The MRG32K3A engine of rocRAND (library/include/rocrand_mrg32k3a.h):    *)
(* state, seeding, restart, next() and the three jump-ahead operations.    *)
(*                                                                         *)
(* The engine computes on `unsigned long long`.  TLC's integers are 32 bit *)
(* wide, so a 64-bit word is kept as four 16-bit limbs, least significant  *)
(* first, and every C operator is modelled by an operator on limbs that    *)
(* wraps modulo 2^64 exactly as the C operator does.                       *)
(***************************************************************************)
EXTENDS Integers, Sequences, FiniteSets

(***************************************************************************)
(* unsigned long long arithmetic                                           *)
(***************************************************************************)
Limb == 256 * 256

Zero64 == <<0, 0, 0, 0>>

\* an int of the model (0 <= n < 2^31) as a 64-bit word
U64(n) == <<n % Limb, n \div Limb, 0, 0>>

\* F(a, b) with a and b evaluated once, before F: an operator's argument is
\* otherwise evaluated again at each place the operator's body names it
Eval2(a, b, F(_, _)) == CHOOSE r \in {F(x, y) : x \in {a}, y \in {b}} : TRUE

\* F(a) with a evaluated once, before F
Eval1(a, F(_)) == CHOOSE r \in {F(x) : x \in {a}} : TRUE

\* a + b  (mod 2^64)
Add64(a0, b0) ==
    Eval2(a0, b0, LAMBDA a, b :
        LET s1 == a[1] + b[1]
            s2 == a[2] + b[2] + (s1 \div Limb)
            s3 == a[3] + b[3] + (s2 \div Limb)
            s4 == a[4] + b[4] + (s3 \div Limb)
        IN  <<s1 % Limb, s2 % Limb, s3 % Limb, s4 % Limb>>)

\* a - b  (mod 2^64); \div rounds down, so a borrow is a carry of -1
Sub64(a0, b0) ==
    Eval2(a0, b0, LAMBDA a, b :
        LET d1 == a[1] - b[1]
            d2 == a[2] - b[2] + (d1 \div Limb)
            d3 == a[3] - b[3] + (d2 \div Limb)
            d4 == a[4] - b[4] + (d3 \div Limb)
        IN  <<d1 % Limb, d2 % Limb, d3 % Limb, d4 % Limb>>)

\* a < b
Lt64(a0, b0) ==
    Eval2(a0, b0, LAMBDA a, b :
        IF a[4] # b[4] THEN a[4] < b[4]
        ELSE IF a[3] # b[3] THEN a[3] < b[3]
        ELSE IF a[2] # b[2] THEN a[2] < b[2]
        ELSE a[1] < b[1])

\* a <= b
Le64(a, b) == ~Lt64(b, a)

\* a * b  (mod 2^64): schoolbook columns of 16-bit limbs.  A limb of a is split
\* in two bytes, a[i] = 256*h_i + l_i, so that no partial sum leaves TLC's
\* integers: column k is 256*t_k + (the l_i * b[j] of the column).
Mul64(a0, b0) ==
    Eval2(a0, b0, LAMBDA a, b :
        LET h1 == a[1] \div 256
            h2 == a[2] \div 256
            h3 == a[3] \div 256
            h4 == a[4] \div 256
            l1 == a[1] % 256
            l2 == a[2] % 256
            l3 == a[3] % 256
            l4 == a[4] % 256
            t1 == h1 * b[1]
            t2 == h1 * b[2] + h2 * b[1]
            t3 == h1 * b[3] + h2 * b[2] + h3 * b[1]
            t4 == h1 * b[4] + h2 * b[3] + h3 * b[2] + h4 * b[1]
            c1 == 256 * (t1 % 256) + l1 * b[1]
            c2 == 256 * (t2 % 256) + l1 * b[2] + l2 * b[1]
                  + (t1 \div 256) + (c1 \div Limb)
            c3 == 256 * (t3 % 256) + l1 * b[3] + l2 * b[2] + l3 * b[1]
                  + (t2 \div 256) + (c2 \div Limb)
            c4 == 256 * (t4 % 256) + l1 * b[4] + l2 * b[3] + l3 * b[2] + l4 * b[1]
                  + (t3 \div 256) + (c3 \div Limb)
        IN  <<c1 % Limb, c2 % Limb, c3 % Limb, c4 % Limb>>)

\* i & (2^32 - 1)
Lo32(i0) == Eval1(i0, LAMBDA i : <<i[1], i[2], 0, 0>>)

\* i >> 32
Hi32(i0) == Eval1(i0, LAMBDA i : <<i[3], i[4], 0, 0>>)

\* i / 2
Half(i0) ==
    Eval1(i0, LAMBDA i :
        <<(i[1] \div 2) + 32768 * (i[2] % 2),
          (i[2] \div 2) + 32768 * (i[3] % 2),
          (i[3] \div 2) + 32768 * (i[4] % 2),
          i[4] \div 2>>)

\* i % 2 == 1
Odd(i) == i[1] % 2 = 1

\* i >> 16
Shr16(i0) == Eval1(i0, LAMBDA i : <<i[2], i[3], i[4], 0>>)

RECURSIVE XorBits(_, _, _)
\* a ^ b on n-bit ints
XorBits(a, b, n) ==
    IF n = 0 THEN 0
    ELSE ((a + b) % 2) + 2 * XorBits(a \div 2, b \div 2, n - 1)

\* a ^ b
Xor64(a0, b0) ==
    Eval2(a0, b0, LAMBDA a, b :
        <<XorBits(a[1], b[1], 16), XorBits(a[2], b[2], 16),
          XorBits(a[3], b[3], 16), XorBits(a[4], b[4], 16)>>)

RECURSIVE Mod64(_, _)
\* v % m for a modulus 2^31 < m < 2^32: the remainder of the unsigned division.
\* 2^32 is congruent to 2^32 - m, so hi*2^32 + lo is congruent to the smaller
\* lo + hi*(2^32 - m); once the high half is 0, v < 2^32 < 2m.
Mod64(v0, m0) ==
    Eval2(v0, m0, LAMBDA v, m :
        IF v[3] = 0 /\ v[4] = 0
        THEN IF Lt64(v, m) THEN v ELSE Sub64(v, m)
        ELSE Mod64(Add64(Lo32(v), Mul64(Hi32(v), Sub64(<<0, 0, 1, 0>>, m))), m))

RECURSIVE Horner(_, _)
\* the value of the digits ds in the given base
Horner(ds, base) ==
    IF ds = <<>> THEN Zero64
    ELSE Add64(Mul64(Horner(SubSeq(ds, 1, Len(ds) - 1), base), U64(base)),
               U64(ds[Len(ds)]))

\* the 64-bit word written with the decimal digits ds
Dec(ds) == Horner(ds, 10)

\* the 64-bit word written with the hexadecimal digits ds
Hex(ds) == Horner(ds, 16)

(***************************************************************************)
(* Constants of rocrand_mrg32k3a.h                                         *)
(***************************************************************************)
ROCRAND_MRG32K3A_POW32 == Dec(<<4, 2, 9, 4, 9, 6, 7, 2, 9, 6>>)

ROCRAND_MRG32K3A_M1 == Dec(<<4, 2, 9, 4, 9, 6, 7, 0, 8, 7>>)

ROCRAND_MRG32K3A_M1C == U64(209)

ROCRAND_MRG32K3A_M2 == Dec(<<4, 2, 9, 4, 9, 4, 4, 4, 4, 3>>)

ROCRAND_MRG32K3A_M2C == U64(22853)

ROCRAND_MRG32K3A_A12 == U64(1403580)

ROCRAND_MRG32K3A_A13N == U64(810728)

ROCRAND_MRG32K3A_A13 == Sub64(Dec(<<4, 2, 9, 4, 9, 6, 7, 0, 8, 7>>), U64(810728))

ROCRAND_MRG32K3A_A21 == U64(527612)

ROCRAND_MRG32K3A_A23N == U64(1370589)

ROCRAND_MRG32K3A_A23 == Sub64(Dec(<<4, 2, 9, 4, 9, 4, 4, 4, 4, 3>>), U64(1370589))

ROCRAND_MRG32K3A_DEFAULT_SEED == Hex(<<1, 2, 3, 4, 5>>)

\* the jump matrices, each in the order of its initialiser
A1 ==
    <<Zero64, U64(1), Zero64,
      Zero64, Zero64, U64(1),
      ROCRAND_MRG32K3A_A13, ROCRAND_MRG32K3A_A12, Zero64>>

A2 ==
    <<Zero64, U64(1), Zero64,
      Zero64, Zero64, U64(1),
      ROCRAND_MRG32K3A_A23, Zero64, ROCRAND_MRG32K3A_A21>>

A1p67 ==
    <<Dec(<<8, 2, 7, 5, 8, 6, 6, 7>>),
      Dec(<<1, 8, 7, 1, 3, 9, 1, 0, 9, 1>>),
      Dec(<<4, 1, 2, 7, 4, 1, 3, 2, 3, 8>>),
      Dec(<<3, 6, 7, 2, 8, 3, 1, 5, 2, 3>>),
      Dec(<<6, 9, 1, 9, 5, 0, 1, 9>>),
      Dec(<<1, 8, 7, 1, 3, 9, 1, 0, 9, 1>>),
      Dec(<<3, 6, 7, 2, 0, 9, 1, 4, 1, 5>>),
      Dec(<<3, 5, 2, 8, 7, 4, 3, 2, 3, 5>>),
      Dec(<<6, 9, 1, 9, 5, 0, 1, 9>>)>>

A2p67 ==
    <<Dec(<<1, 5, 1, 1, 3, 2, 6, 7, 0, 4>>),
      Dec(<<3, 7, 5, 9, 2, 0, 9, 7, 4, 2>>),
      Dec(<<1, 6, 1, 0, 7, 9, 5, 7, 1, 2>>),
      Dec(<<4, 2, 9, 2, 7, 5, 4, 2, 5, 1>>),
      Dec(<<1, 5, 1, 1, 3, 2, 6, 7, 0, 4>>),
      Dec(<<3, 8, 8, 9, 9, 1, 7, 5, 3, 2>>),
      Dec(<<3, 8, 5, 9, 6, 6, 2, 8, 2, 9>>),
      Dec(<<4, 2, 9, 2, 7, 5, 4, 2, 5, 1>>),
      Dec(<<3, 7, 0, 8, 4, 6, 6, 0, 8, 0>>)>>

A1p127 ==
    <<Dec(<<2, 4, 2, 7, 9, 0, 6, 1, 7, 8>>),
      Dec(<<3, 5, 8, 0, 1, 5, 5, 7, 0, 4>>),
      Dec(<<9, 4, 9, 7, 7, 0, 7, 8, 4>>),
      Dec(<<2, 2, 6, 1, 5, 3, 6, 9, 5>>),
      Dec(<<1, 2, 3, 0, 5, 1, 5, 6, 6, 4>>),
      Dec(<<3, 5, 8, 0, 1, 5, 5, 7, 0, 4>>),
      Dec(<<1, 9, 8, 8, 8, 3, 5, 0, 0, 1>>),
      Dec(<<9, 8, 6, 7, 9, 1, 5, 8, 1>>),
      Dec(<<1, 2, 3, 0, 5, 1, 5, 6, 6, 4>>)>>

A2p127 ==
    <<Dec(<<1, 4, 6, 4, 4, 1, 1, 1, 5, 3>>),
      Dec(<<2, 7, 7, 6, 9, 7, 5, 9, 9>>),
      Dec(<<1, 6, 1, 0, 7, 2, 3, 6, 1, 3>>),
      Dec(<<3, 2, 1, 8, 3, 9, 3, 0>>),
      Dec(<<1, 4, 6, 4, 4, 1, 1, 1, 5, 3>>),
      Dec(<<1, 0, 2, 2, 6, 0, 7, 7, 8, 8>>),
      Dec(<<2, 8, 2, 4, 4, 2, 5, 9, 4, 4>>),
      Dec(<<3, 2, 1, 8, 3, 9, 3, 0>>),
      Dec(<<2, 0, 9, 3, 8, 3, 4, 8, 6, 3>>)>>

(***************************************************************************)
(* Modular helpers                                                         *)
(***************************************************************************)
\* mod_m1: one fold of the high half, one conditional subtraction
mod_m1(i0) ==
    Eval1(i0, LAMBDA i :
    Eval1(Add64(Lo32(i), Mul64(Hi32(i), ROCRAND_MRG32K3A_M1C)), LAMBDA p :
        IF Le64(ROCRAND_MRG32K3A_M1, p) THEN Sub64(p, ROCRAND_MRG32K3A_M1) ELSE p))

\* a reduction modulo M2 with one fold only, as mod_m1 has
mod_m2_one_fold(i0) ==
    Eval1(i0, LAMBDA i :
    Eval1(Add64(Lo32(i), Mul64(Hi32(i), ROCRAND_MRG32K3A_M2C)), LAMBDA p :
        IF Le64(ROCRAND_MRG32K3A_M2, p) THEN Sub64(p, ROCRAND_MRG32K3A_M2) ELSE p))

\* mod_m2: two folds of the high half, one conditional subtraction
mod_m2(i0) ==
    Eval1(i0, LAMBDA i :
    Eval1(Add64(Lo32(i), Mul64(Hi32(i), ROCRAND_MRG32K3A_M2C)), LAMBDA p :
    Eval1(Add64(Lo32(p), Mul64(Hi32(p), ROCRAND_MRG32K3A_M2C)), LAMBDA q :
        IF Le64(ROCRAND_MRG32K3A_M2, q) THEN Sub64(q, ROCRAND_MRG32K3A_M2) ELSE q)))

\* a long long read as signed is negative when bit 63 is set
Negative(v) == v[4] >= 32768

\* mod_mul_m1(unsigned int i, unsigned long long j); 131072 is 2^17
mod_mul_m1(i0, j0) ==
    Eval2(i0, j0, LAMBDA i, j :
    Eval1(Half(Shr16(i)), LAMBDA hi :
    Eval1(Sub64(i, Mul64(hi, U64(131072))), LAMBDA lo :
    Eval1(Mul64(mod_m1(Mul64(hi, j)), U64(131072)), LAMBDA temp1 :
    Eval1(mod_m1(Mul64(lo, j)), LAMBDA temp2 :
    Eval1(mod_m1(Add64(temp1, temp2)), LAMBDA r :
        IF Negative(r) THEN Add64(r, ROCRAND_MRG32K3A_M1) ELSE r))))))

\* mod_mul_m2(unsigned int i, unsigned long long j)
mod_mul_m2(i0, j0) ==
    Eval2(i0, j0, LAMBDA i, j :
    Eval1(Half(Shr16(i)), LAMBDA hi :
    Eval1(Sub64(i, Mul64(hi, U64(131072))), LAMBDA lo :
    Eval1(Mul64(mod_m2(Mul64(hi, j)), U64(131072)), LAMBDA temp1 :
    Eval1(mod_m2(Mul64(lo, j)), LAMBDA temp2 :
    Eval1(mod_m2(Add64(temp1, temp2)), LAMBDA r :
        IF Negative(r) THEN Add64(r, ROCRAND_MRG32K3A_M2) ELSE r))))))

RECURSIVE mod_mat_vec_row(_, _, _, _, _, _)
\* the inner loop of mod_mat_vec from j on, x the value of x[i] so far:
\* x[i] = (A[i + 3 * j] * s[j] + x[i]) % m.  The arrays of the model start at 1.
mod_mat_vec_row(A, s, m, i, j, x0) ==
    Eval1(x0, LAMBDA x :
        IF j = 3 THEN x
        ELSE mod_mat_vec_row(A, s, m, i, j + 1,
                 Mod64(Add64(Mul64(A[i + 3 * j + 1], s[j + 1]), x), m)))

\* mod_mat_vec(A, s, m): the new s
mod_mat_vec(A0, s0, m) ==
    Eval2(A0, s0, LAMBDA A, s :
        [i \in 1..3 |-> mod_mat_vec_row(A, s, m, i - 1, 0, Zero64)])

RECURSIVE mod_mat_sq_sum(_, _, _, _, _, _)
\* the inner loop of mod_mat_sq from k on, a0 the value of a so far:
\* a += (A[i + 3 * k] * A[k + 3 * j]) % m
mod_mat_sq_sum(A, m, i, j, k, a0) ==
    Eval1(a0, LAMBDA a :
        IF k = 3 THEN a
        ELSE mod_mat_sq_sum(A, m, i, j, k + 1,
                 Add64(a, Mod64(Mul64(A[i + 3 * k + 1], A[k + 3 * j + 1]), m))))

\* a squaring that stores its entries at x[j + 3 * i]
mod_mat_sq_swapped(A0, m) ==
    Eval1(A0, LAMBDA A :
        [n \in 1..9 |->
            Mod64(mod_mat_sq_sum(A, m, (n - 1) \div 3, (n - 1) % 3, 0, Zero64), m)])

\* mod_mat_sq(A, m): the new A, x[i + 3 * j] = a % m
mod_mat_sq(A0, m) ==
    Eval1(A0, LAMBDA A :
        [n \in 1..9 |->
            Mod64(mod_mat_sq_sum(A, m, (n - 1) % 3, (n - 1) \div 3, 0, Zero64), m)])

(***************************************************************************)
(* The engine.  A state st is the struct mrg32k3a_state: g1, g2 (arrays of   *)
(* three words, from index 1 in the model) and the Box-Muller cache.       *)
(***************************************************************************)
RECURSIVE discard_state_loop(_)
\* the while loop of discard_state; v holds the loop's variables: the local arrays
\* A1, A2, the count left and the engine state
discard_state_loop(v0) ==
    Eval1(v0, LAMBDA v :
    IF ~Lt64(Zero64, v.offset) THEN v.st
    ELSE discard_state_loop(
             [A1 |-> mod_mat_sq(v.A1, ROCRAND_MRG32K3A_M1),
              A2 |-> mod_mat_sq(v.A2, ROCRAND_MRG32K3A_M2),
              offset |-> Half(v.offset),
              st |-> IF Odd(v.offset)
                     THEN [v.st EXCEPT
                              !.g1 = mod_mat_vec(v.A1, v.st.g1, ROCRAND_MRG32K3A_M1),
                              !.g2 = mod_mat_vec(v.A2, v.st.g2, ROCRAND_MRG32K3A_M2)]
                     ELSE v.st]))

\* a discard_state whose loop runs its body before it tests offset
discard_state_body_first(st, offset) ==
    discard_state_loop(
        [A1 |-> mod_mat_sq(A1, ROCRAND_MRG32K3A_M1),
         A2 |-> mod_mat_sq(A2, ROCRAND_MRG32K3A_M2),
         offset |-> Half(offset),
         st |-> [st EXCEPT
                    !.g1 = mod_mat_vec(A1, st.g1, ROCRAND_MRG32K3A_M1),
                    !.g2 = mod_mat_vec(A2, st.g2, ROCRAND_MRG32K3A_M2)]])

\* discard_state(offset), which discard_impl and discard call
discard_state(st, offset) ==
    discard_state_loop([A1 |-> A1, A2 |-> A2, offset |-> offset, st |-> st])

RECURSIVE discard_subsequence_loop(_)
\* the while loop of discard_subsequence_impl; v holds the loop's variables: the local arrays
\* A1, A2, the count left and the engine state
discard_subsequence_loop(v0) ==
    Eval1(v0, LAMBDA v :
    IF ~Lt64(Zero64, v.subsequence) THEN v.st
    ELSE discard_subsequence_loop(
             [A1 |-> mod_mat_sq(v.A1, ROCRAND_MRG32K3A_M1),
              A2 |-> mod_mat_sq(v.A2, ROCRAND_MRG32K3A_M2),
              subsequence |-> Half(v.subsequence),
              st |-> IF Odd(v.subsequence)
                     THEN [v.st EXCEPT
                              !.g1 = mod_mat_vec(v.A1, v.st.g1, ROCRAND_MRG32K3A_M1),
                              !.g2 = mod_mat_vec(v.A2, v.st.g2, ROCRAND_MRG32K3A_M2)]
                     ELSE v.st]))

\* discard_subsequence_impl(subsequence), which discard_subsequence calls
discard_subsequence_impl(st, subsequence) ==
    discard_subsequence_loop(
        [A1 |-> A1p67, A2 |-> A2p67, subsequence |-> subsequence, st |-> st])

RECURSIVE discard_sequence_loop(_)
\* the while loop of discard_sequence_impl; v holds the loop's variables: the local arrays
\* A1, A2, the count left and the engine state
discard_sequence_loop(v0) ==
    Eval1(v0, LAMBDA v :
    IF ~Lt64(Zero64, v.sequence) THEN v.st
    ELSE discard_sequence_loop(
             [A1 |-> mod_mat_sq(v.A1, ROCRAND_MRG32K3A_M1),
              A2 |-> mod_mat_sq(v.A2, ROCRAND_MRG32K3A_M2),
              sequence |-> Half(v.sequence),
              st |-> IF Odd(v.sequence)
                     THEN [v.st EXCEPT
                              !.g1 = mod_mat_vec(v.A1, v.st.g1, ROCRAND_MRG32K3A_M1),
                              !.g2 = mod_mat_vec(v.A2, v.st.g2, ROCRAND_MRG32K3A_M2)]
                     ELSE v.st]))

\* discard_sequence_impl(sequence), which discard_sequence calls
discard_sequence_impl(st, sequence) ==
    discard_sequence_loop(
        [A1 |-> A1p127, A2 |-> A2p127, sequence |-> sequence, st |-> st])

\* a restart that leaves the Box-Muller flags alone
restart_keeping_cache(st, subsequence, offset) ==
    discard_state(discard_subsequence_impl(st, subsequence), offset)

\* restart(subsequence, offset)
restart(st, subsequence, offset) ==
    discard_state(
        discard_subsequence_impl(
            [st EXCEPT !.boxmuller_float_state = 0,
                       !.boxmuller_double_state = 0],
            subsequence),
        offset)

\* a seed that uses seed_value as it comes, zero included
seed_as_given(st, seed_value, subsequence, offset) ==
    Eval1(seed_value, LAMBDA sv :
    Eval1(Xor64(Lo32(sv), Hex(<<5, 5, 5, 5, 5, 5, 5, 5>>)), LAMBDA x :
    Eval1(Lo32(Xor64(Hi32(sv), Hex(<<10, 10, 10, 10, 10, 10, 10, 10>>))), LAMBDA y :
        restart([st EXCEPT !.g1 = <<mod_mul_m1(x, sv), mod_mul_m1(y, sv),
                                    mod_mul_m1(x, sv)>>,
                           !.g2 = <<mod_mul_m2(y, sv), mod_mul_m2(x, sv),
                                    mod_mul_m2(y, sv)>>],
                subsequence, offset))))

\* seed(seed_value, subsequence, offset)
seed(st, seed_value, subsequence, offset) ==
    Eval1(IF seed_value = Zero64 THEN ROCRAND_MRG32K3A_DEFAULT_SEED ELSE seed_value,
          LAMBDA sv :
    Eval1(Xor64(Lo32(sv), Hex(<<5, 5, 5, 5, 5, 5, 5, 5>>)), LAMBDA x :
    Eval1(Lo32(Xor64(Hi32(sv), Hex(<<10, 10, 10, 10, 10, 10, 10, 10>>))), LAMBDA y :
        restart([st EXCEPT !.g1 = <<mod_mul_m1(x, sv), mod_mul_m1(y, sv),
                                    mod_mul_m1(x, sv)>>,
                           !.g2 = <<mod_mul_m2(y, sv), mod_mul_m2(x, sv),
                                    mod_mul_m2(y, sv)>>],
                subsequence, offset))))

\* next(): the state it leaves
next_state(st0) ==
    Eval1(st0, LAMBDA st :
    LET p1 == mod_m1(Add64(Mul64(ROCRAND_MRG32K3A_A12, st.g1[2]),
                           Mul64(ROCRAND_MRG32K3A_A13N,
                                 Sub64(ROCRAND_MRG32K3A_M1, st.g1[1]))))
        p2 == mod_m2(Add64(Mul64(ROCRAND_MRG32K3A_A21, st.g2[3]),
                           Mul64(ROCRAND_MRG32K3A_A23N,
                                 Sub64(ROCRAND_MRG32K3A_M2, st.g2[1]))))
    IN  [st EXCEPT !.g1 = <<st.g1[2], st.g1[3], p1>>,
                   !.g2 = <<st.g2[2], st.g2[3], p2>>])

\* next(): the value it returns, from the state it leaves
next_value(st0) ==
    Eval1(st0, LAMBDA st :
    Eval1(Sub64(st.g1[3], st.g2[3]), LAMBDA p :
        IF Le64(st.g1[3], st.g2[3]) THEN Add64(p, ROCRAND_MRG32K3A_M1) ELSE p))

(***************************************************************************)
(* The Box-Muller cache.  The helper that fills it is a friend class of    *)
(* the engine; it draws two values with next() and keeps the second        *)
(* normal value.  The cached value is kept as the pair of draws it is a    *)
(* function of.                                                            *)
(***************************************************************************)
\* a cache slot the constructor has not written; it is not read while its
\* present flag is 0
Indeterminate == <<>>

\* a float normal draw: the cached value if present, a fresh pair otherwise
boxmuller_float_draw(st) ==
    IF st.boxmuller_float_state # 0
    THEN [st EXCEPT !.boxmuller_float_state = 0]
    ELSE Eval1(next_state(st), LAMBDA s1 :
         Eval1(next_state(s1), LAMBDA s2 :
             [s2 EXCEPT !.boxmuller_float_state = 1,
                        !.boxmuller_float = <<next_value(s1), next_value(s2)>>]))

\* a double normal draw: the cached value if present, a fresh pair otherwise
boxmuller_double_draw(st) ==
    IF st.boxmuller_double_state # 0
    THEN [st EXCEPT !.boxmuller_double_state = 0]
    ELSE Eval1(next_state(st), LAMBDA s1 :
         Eval1(next_state(s1), LAMBDA s2 :
             [s2 EXCEPT !.boxmuller_double_state = 1,
                        !.boxmuller_double = <<next_value(s1), next_value(s2)>>]))

(***************************************************************************)
(* The state machine: one engine and the calls made on it.                 *)
(***************************************************************************)
VARIABLES
    m_state,    \* the engine's mrg32k3a_state
    calls       \* the calls made so far: operation, arguments, state before, result

vars == <<m_state, calls>>

\* how many calls a behaviour makes
MaxCalls == 2

\* discard offsets run over 0..MaxJump
MaxJump == 2

Jumps == {U64(n) : n \in 0..MaxJump}

\* subsequence counts and sequence counts
StartJumps == {Zero64, U64(1)}

\* <<subsequence, offset>> arguments of seed and restart
StartPositions == {<<Zero64, Zero64>>, <<U64(1), U64(2)>>}

\* seed values: zero, the default, and a full-width seed
SeedValues ==
    {Zero64,
     ROCRAND_MRG32K3A_DEFAULT_SEED,
     Hex(<<15, 2, 14, 14, 4, 14, 4, 5, 1, 9, 15, 9, 9, 1, 9, 12>>)}

\* the memory the constructor starts from
Raw ==
    [g1 |-> <<Zero64, Zero64, Zero64>>,
     g2 |-> <<Zero64, Zero64, Zero64>>,
     boxmuller_float_state |-> 0,
     boxmuller_double_state |-> 0,
     boxmuller_float |-> Indeterminate,
     boxmuller_double |-> Indeterminate]

Call(op, args, ret) ==
    [op |-> op, args |-> args, before |-> m_state, ret |-> ret]

\* mrg32k3a_engine(): seed(ROCRAND_MRG32K3A_DEFAULT_SEED, 0, 0)
Init ==
    /\ m_state = seed(Raw, ROCRAND_MRG32K3A_DEFAULT_SEED, Zero64, Zero64)
    /\ calls = <<>>

Seed(seed_value, subsequence, offset) ==
    /\ Len(calls) < MaxCalls
    /\ m_state' = seed(m_state, seed_value, subsequence, offset)
    /\ calls' = Append(calls, Call("seed", <<seed_value, subsequence, offset>>, Zero64))

Restart(subsequence, offset) ==
    /\ Len(calls) < MaxCalls
    /\ m_state' = restart(m_state, subsequence, offset)
    /\ calls' = Append(calls, Call("restart", <<subsequence, offset>>, Zero64))

Discard(offset) ==
    /\ Len(calls) < MaxCalls
    /\ m_state' = discard_state(m_state, offset)
    /\ calls' = Append(calls, Call("discard", <<offset>>, Zero64))

DiscardSubsequence(subsequence) ==
    /\ Len(calls) < MaxCalls
    /\ m_state' = discard_subsequence_impl(m_state, subsequence)
    /\ calls' = Append(calls, Call("discard_subsequence", <<subsequence>>, Zero64))

DiscardSequence(sequence) ==
    /\ Len(calls) < MaxCalls
    /\ m_state' = discard_sequence_impl(m_state, sequence)
    /\ calls' = Append(calls, Call("discard_sequence", <<sequence>>, Zero64))

NextCall ==
    /\ Len(calls) < MaxCalls
    /\ m_state' = next_state(m_state)
    /\ calls' = Append(calls, Call("next", <<>>, next_value(next_state(m_state))))

NormalFloat ==
    /\ Len(calls) < MaxCalls
    /\ m_state' = boxmuller_float_draw(m_state)
    /\ calls' = Append(calls, Call("normal_float", <<>>, Zero64))

NormalDouble ==
    /\ Len(calls) < MaxCalls
    /\ m_state' = boxmuller_double_draw(m_state)
    /\ calls' = Append(calls, Call("normal_double", <<>>, Zero64))

Next ==
    \/ \E sv \in SeedValues, p \in StartPositions : Seed(sv, p[1], p[2])
    \/ \E p \in StartPositions : Restart(p[1], p[2])
    \/ \E n \in Jumps : Discard(n)
    \/ \E n \in StartJumps : DiscardSubsequence(n)
    \/ \E n \in StartJumps : DiscardSequence(n)
    \/ NextCall
    \/ NormalFloat
    \/ NormalDouble

Spec == Init /\ [][Next]_vars

(***************************************************************************)
(* Properties.  Each is stated over the last call (and the one before it)  *)
(* of the history: the state the call started from, its arguments, its     *)
(* result and the state it left.                                           *)
(***************************************************************************)
Last == calls[Len(calls)]

Prev == calls[Len(calls) - 1]

\* every g1[i] < M1 and every g2[i] < M2
InBounds(st) ==
    \A i \in 1..3 : /\ Lt64(st.g1[i], ROCRAND_MRG32K3A_M1)
                    /\ Lt64(st.g2[i], ROCRAND_MRG32K3A_M2)

\* the generator part of a state
gs(st) == <<st.g1, st.g2>>

RECURSIVE NextTimes(_, _)
\* the state after n calls of next()
NextTimes(st0, n0) ==
    Eval2(st0, n0, LAMBDA st, n :
        IF n = Zero64 THEN st ELSE NextTimes(next_state(st), Sub64(n, U64(1))))

RECURSIVE DiscardTimes(_)
\* the state v.st after v.n calls of discard(v.offset)
DiscardTimes(v0) ==
    Eval1(v0, LAMBDA v :
        IF v.n = 0 THEN v.st
        ELSE DiscardTimes([n |-> v.n - 1, offset |-> v.offset,
                           st |-> discard_state(v.st, v.offset)]))

\* 2^63 and 2^60 as 64-bit words
Pow63 == <<0, 0, 0, 32768>>

Pow60 == <<0, 0, 0, 4096>>

\* C1: from an in-bounds state, discard(n) leaves the (g1, g2) that n calls of
\* next() leave, so the next() after it returns what the (n+1)-th next() returns.
C1_JumpMatchesIteration ==
    (Len(calls) > 0 /\ Last.op = "discard" /\ InBounds(Last.before))
        => /\ gs(m_state) = gs(NextTimes(Last.before, Last.args[1]))
           /\ next_value(next_state(m_state))
                  = next_value(next_state(NextTimes(Last.before, Last.args[1])))

\* C2: after construction and after every call, every g1[i] < M1 and every
\* g2[i] < M2.
C2_StateInBounds == InBounds(m_state)

\* C3: every value next() returns is at least 1 and at most M1.
C3_OutputInRange ==
    (Len(calls) > 0 /\ Last.op = "next")
        => /\ Lt64(Zero64, Last.ret)
           /\ Le64(Last.ret, ROCRAND_MRG32K3A_M1)

\* C4: from an in-bounds state, discard_subsequence(1) leaves the (g1, g2) that
\* 16 successive discard(2^63) calls, 2^67 steps in all, leave.
C4_SubsequenceIs2Pow67 ==
    (Len(calls) > 0 /\ Last.op = "discard_subsequence" /\ Last.args[1] = U64(1)
        /\ InBounds(Last.before))
        => gs(m_state)
               = gs(DiscardTimes([n |-> 16, offset |-> Pow63, st |-> Last.before]))

\* C5: from an in-bounds state, discard_sequence(1) leaves the (g1, g2) that
\* discard_subsequence(2^60) leaves.
C5_SequenceIs2Pow60Subsequences ==
    (Len(calls) > 0 /\ Last.op = "discard_sequence" /\ Last.args[1] = U64(1)
        /\ InBounds(Last.before))
        => gs(m_state) = gs(discard_subsequence_impl(Last.before, Pow60))

\* C6: seed(0, subsequence, offset) leaves the state, g1, g2 and both Box-Muller
\* flags, that seed(0x12345, subsequence, offset) leaves from the same state.
C6_ZeroSeedIsDefaultSeed ==
    (Len(calls) > 0 /\ Last.op = "seed" /\ Last.args[1] = Zero64)
        => m_state = seed(Last.before, Hex(<<1, 2, 3, 4, 5>>),
                          Last.args[2], Last.args[3])

\* a seed(0, ...) with a non-zero subsequence and offset, from a state that a
\* call has moved and whose float cache is present
C6_Witness ==
    /\ Len(calls) > 1
    /\ Last.op = "seed"
    /\ Last.args[1] = Zero64
    /\ Last.args[2] # Zero64
    /\ Last.args[3] # Zero64
    /\ Last.before.boxmuller_float_state = 1

\* C7: when seed or restart returns, boxmuller_float_state and
\* boxmuller_double_state are both 0, whatever they were before.
C7_CacheInvalidated ==
    (Len(calls) > 0 /\ Last.op \in {"seed", "restart"})
        => /\ m_state.boxmuller_float_state = 0
           /\ m_state.boxmuller_double_state = 0

\* a restart from a state with a cached normal value
C7_Witness ==
    /\ Len(calls) > 1
    /\ Last.op = "restart"
    /\ Prev.op \in {"normal_float", "normal_double"}
    /\ \/ Last.before.boxmuller_float_state = 1
       \/ Last.before.boxmuller_double_state = 1

\* C8: discard(0), discard_subsequence(0) and discard_sequence(0) leave g1, g2
\* and the Box-Muller cache, values and flags, as they were.
C8_ZeroJumpIsNoOp ==
    (Len(calls) > 0
        /\ Last.op \in {"discard", "discard_subsequence", "discard_sequence"}
        /\ Last.args[1] = Zero64)
        => m_state = Last.before

\* a discard(0) from a state with a cached normal value
C8_Witness ==
    /\ Len(calls) > 1
    /\ Last.op = "discard"
    /\ Last.args[1] = Zero64
    /\ Last.before.boxmuller_double_state = 1
    /\ Last.before.boxmuller_double # Indeterminate

\* the operands of a product both fit 32 bits, so the product fits 64
NoWrapMul(a, b) == Hi32(a) = Zero64 /\ Hi32(b) = Zero64

\* the sum a + b does not carry out of 64 bits
NoWrapAdd(a, b) == Le64(a, Add64(a, b))

\* r is the residue of a12 * x - a13n * y modulo m: r < m and
\* r + a13n * y and a12 * x leave the same remainder
IsResidue(r, a12, x, a13n, y, m) ==
    /\ Lt64(r, m)
    /\ NoWrapMul(a13n, y)
    /\ NoWrapAdd(r, Mul64(a13n, y))
    /\ Mod64(Add64(r, Mul64(a13n, y)), m) = Mod64(Mul64(a12, x), m)

\* the sum a12 * x + a13n * (m - y) that next() hands to mod_m1 or mod_m2
\* is computed without wraparound
NoWrapStep(a12, x, a13n, y, m) ==
    /\ Le64(y, m)
    /\ NoWrapMul(a12, x)
    /\ NoWrapMul(a13n, Sub64(m, y))
    /\ NoWrapAdd(Mul64(a12, x), Mul64(a13n, Sub64(m, y)))

\* C9: from an in-bounds state no sum of next() wraps around, and next() leaves
\* g1 = (g1[1], g1[2], (A12*g1[1] - A13N*g1[0]) mod M1) and
\* g2 = (g2[1], g2[2], (A21*g2[2] - A23N*g2[0]) mod M2), fully reduced.
C9_NextIsTheRecurrence ==
    (Len(calls) > 0 /\ Last.op = "next" /\ InBounds(Last.before))
        => LET b == Last.before
           IN  /\ NoWrapStep(ROCRAND_MRG32K3A_A12, b.g1[2],
                             ROCRAND_MRG32K3A_A13N, b.g1[1], ROCRAND_MRG32K3A_M1)
               /\ NoWrapStep(ROCRAND_MRG32K3A_A21, b.g2[3],
                             ROCRAND_MRG32K3A_A23N, b.g2[1], ROCRAND_MRG32K3A_M2)
               /\ m_state.g1[1] = b.g1[2]
               /\ m_state.g1[2] = b.g1[3]
               /\ IsResidue(m_state.g1[3], ROCRAND_MRG32K3A_A12, b.g1[2],
                            ROCRAND_MRG32K3A_A13N, b.g1[1], ROCRAND_MRG32K3A_M1)
               /\ m_state.g2[1] = b.g2[2]
               /\ m_state.g2[2] = b.g2[3]
               /\ IsResidue(m_state.g2[3], ROCRAND_MRG32K3A_A21, b.g2[3],
                            ROCRAND_MRG32K3A_A23N, b.g2[1], ROCRAND_MRG32K3A_M2)

\* a next() from an in-bounds state that a jump has moved
C9_Witness ==
    /\ Len(calls) > 1
    /\ Prev.op = "discard_subsequence"
    /\ Prev.args[1] # Zero64
    /\ Last.op = "next"
    /\ InBounds(Last.before)

\* C10: from an in-bounds state, discard(a) then discard(b) leaves the (g1, g2)
\* of discard(a + b) and of discard(b) then discard(a); discard_subsequence(n)
\* and discard(k) leave the same (g1, g2) in either order.
C10_JumpsComposeAndCommute ==
    (Len(calls) > 1 /\ InBounds(Prev.before))
        => /\ (Prev.op = "discard" /\ Last.op = "discard")
                  => /\ gs(m_state)
                            = gs(discard_state(Prev.before,
                                               Add64(Prev.args[1], Last.args[1])))
                     /\ gs(m_state)
                            = gs(discard_state(
                                     discard_state(Prev.before, Last.args[1]),
                                     Prev.args[1]))
           /\ (Prev.op = "discard_subsequence" /\ Last.op = "discard")
                  => gs(m_state)
                         = gs(discard_subsequence_impl(
                                  discard_state(Prev.before, Last.args[1]),
                                  Prev.args[1]))
           /\ (Prev.op = "discard" /\ Last.op = "discard_subsequence")
                  => gs(m_state)
                         = gs(discard_state(
                                  discard_subsequence_impl(Prev.before, Last.args[1]),
                                  Prev.args[1]))

\* discard(2) then discard(1) from an in-bounds state
C10_Witness ==
    /\ Len(calls) > 1
    /\ InBounds(Prev.before)
    /\ Prev.op = "discard"
    /\ Prev.args[1] = U64(2)
    /\ Last.op = "discard"
    /\ Last.args[1] = U64(1)

====
